---- MODULE Spec2Model ----
(***************************************************************************)
(* A model of the chihaya tracker's frontends and bootstrap:               *)
(*   - udp/udp.go   : Server.Serve / Server.serve / the per-datagram       *)
(*                    worker / the key rotation goroutine / Server.Stop    *)
(*   - http/http.go : keypairReloader (reload loop, timer callback,        *)
(*                    maybeReload, GetCertificateFunc) and Server.Serve /  *)
(*                    Server.Stop                                          *)
(*   - chihaya.go   : Boot                                                 *)
(* Every goroutine is a process with a program counter; one action is one  *)
(* step of one goroutine between two points where another goroutine can    *)
(* observe or change shared state.                                         *)
(***************************************************************************)
EXTENDS Integers, Sequences, FiniteSets, TLC

(***************************************************************************)
(* Bounds of the model.                                                    *)
(***************************************************************************)
\* number of datagram workers that can be in flight at once
MaxWorkers == 1
\* number of Serve() calls made on one udp.Server
MaxServeCalls == 2
\* number of key pairs successfully loaded from disk after the first
MaxReloads == 2
\* number of TLS handshakes that can be in the certificate hook at once
MaxHandshakes == 1
\* seconds that can pass between the two time.Until calls of one computation
MaxDrift == 1
\* number of connections the cmux has accepted and not yet forgotten
MaxConns == 2

(***************************************************************************)
(* Program constants.                                                      *)
(***************************************************************************)
\* time.Second * 3600
Hour == 3600

VARIABLES
    \* ---- the process -------------------------------------------------
    proc,        \* "running" | "panic" (unrecovered panic) | "exit0" (Boot returned)
    \* ---- udp.Server --------------------------------------------------
    sock,        \* s.sock: "nil" | "set"
    conn,        \* the UDP socket serve() binds: "none" | "open" | "closed"
    closing,     \* s.closing is closed
    booting,     \* number of close(s.booting) executed (the second one panics)
    wg,          \* s.wg counter
    servePc,     \* position of the goroutine running Serve()/serve()
    serveErr,    \* what serve() returned: "none" (not returned) | "nil" | an error
    readRes,     \* result of the last ReadFromUDP: "none" | "ok" | "temp" | "fatal"
    buffer,      \* the loop's local `buffer`: 0 (none) or a buffer id
    loopGave,    \* GiveSlice calls of the loop on `buffer` since it was taken
    pool,        \* the bufferpool's free list, a queue of buffer ids
    workers,     \* the worker goroutines: slot -> [pc, buf, resp, gave, wrote]
    serveCalls,  \* number of Serve() calls made so far
    rotN,        \* number of live key rotation goroutines
    stopPc,      \* position of the goroutine running Stop()
    stopBooted,  \* history: s.sock was set and the loop running when Stop() began
    \* ---- http.keypairReloader ----------------------------------------
    cert,        \* kpr.cert: handle of the cached key pair (0: nil or empty)
    certMuW,     \* kpr.certMu is write-locked
    certMuR,     \* number of read locks held on kpr.certMu
    timer,       \* kpr.timer: "nil" | "armed" | "fired" | "stopped"
    reloadTime,  \* kpr.reloadTime, in seconds
    kprPc,       \* position of the reload loop goroutine ("off": no reloader)
    lastIn,      \* the loop's locals: the parse result and the time.Until readings
    kwg,         \* the reload goroutine's WaitGroup counter
    cbPc,        \* position of the timer callback goroutine
    cbNew,       \* maybeReload's newCert (0: the zero value left by a failed load)
    loaded,      \* number of key pairs loaded from disk so far (the newest handle)
    reloaded,    \* history: handle stored by the last maybeReload that returned nil
    lastReload,  \* history: outcome of the last reload attempt: "none" | "ok" | "failed"
    stopping,    \* http.Server.stopping
    hs,          \* TLS handshakes in the GetCertificate hook: slot -> record
    \* ---- chihaya.Boot and the frontends it runs -----------------------
    cfgHTTP,     \* cfg.HTTPConfig.ListenAddr != ""
    cfgCert,     \* cfg.HTTPConfig.TLSCertPath != ""
    cfgKey,      \* cfg.HTTPConfig.TLSKeyPath != ""
    cfgUDP,      \* cfg.UDPConfig.ListenAddr != ""
    bootPc,      \* position of Boot ("off": Boot is not running)
    bootI,       \* index of the server the current loop of Boot is at
    bootWg,      \* Boot's wg counter
    goPc,        \* Boot's goroutine of each server: "none" | "running" | "done"
    notify,      \* signal.Notify(shutdown, ...) is in force
    shutdown,    \* the shutdown channel: "none" | "open" | "closed"
    waiterPc,    \* the goroutine that closes shutdown once wg.Wait() returns
    httpPc,      \* position of http.Server.Serve
    httpErr,     \* the startup error http.Server.Serve panicked with, or "none"
    httpStop,    \* s.http.Stop (and s.https.Stop) have been called
    listener,    \* the TCP listener l: "none" | "open" | "closed"
    graceful,    \* s.http, s.https: "nil" | "serving" | "interrupted" | "done"
    conns,       \* connections accepted by the cmux: slot -> [pc, first, to]
    signals,     \* history: number of signals Boot received from shutdown
    serveLog,    \* history: the servers Serve() was invoked on, in order
    stopLog,     \* history: the servers Stop() was invoked on, in order
    tkrClosed    \* number of tkr.Close() calls

udpVars == <<sock, conn, closing, booting, wg, servePc, serveErr, readRes, buffer,
             loopGave, pool, workers,
             serveCalls, rotN, stopPc, stopBooted>>

\* the variables of the other components (left alone by the UDP server's steps)
kprVars == <<cert, certMuW, certMuR, timer, reloadTime, kprPc, lastIn, kwg, cbPc, cbNew,
             loaded, reloaded, lastReload, stopping, hs>>

cfgVars == <<cfgHTTP, cfgCert, cfgKey, cfgUDP>>
httpVars == <<httpPc, httpErr, httpStop, listener, graceful, conns>>
bootOwn == <<bootPc, bootI, bootWg, goPc, notify, shutdown, waiterPc, signals, serveLog,
             stopLog, tkrClosed>>
bootVars == <<cfgVars, httpVars, bootOwn>>

\* the variables of the other components (left alone by a component's steps)
nonUdpVars == <<kprVars, bootVars>>
nonKprVars == <<udpVars, bootVars>>

vars == <<proc, udpVars, kprVars, bootVars>>

Alive == proc = "running"

(***************************************************************************)
(* The buffer pool (github.com/pushrax/bufferpool as used by serve()).     *)
(***************************************************************************)
Slots == 1..MaxWorkers
BufIds == 1..(MaxWorkers + 1)

SeqRange(s) == {s[i] : i \in 1..Len(s)}

HeldBufs == {workers[w].buf : w \in {x \in Slots : workers[x].pc # "idle"}}
              \cup (IF buffer # 0 THEN {buffer} ELSE {})

\* TakeSlice: the head of the free list, or a fresh allocation when it is empty
TakeSlice == IF pool # <<>> THEN Head(pool)
             ELSE CHOOSE b \in BufIds : b \notin HeldBufs /\
                        \A c \in BufIds : c \notin HeldBufs => b <= c
PoolAfterTake == IF pool # <<>> THEN Tail(pool) ELSE pool

\* GiveSlice: append to the free list
GiveSlice(p, b) == Append(p, b)

IdleWorker == {w \in Slots : workers[w].pc = "idle"}
NoWorker == [pc |-> "idle", buf |-> 0, resp |-> FALSE, gave |-> 0, wrote |-> "no"]

(***************************************************************************)
(* http.keypairReloader: the state before NewKeypairReloader is called     *)
(***************************************************************************)
HsSlots == 1..MaxHandshakes
NoHandshake == [pc |-> "idle", got |-> 0, seen |-> {}, min |-> 0]
NoInput == [parses |-> TRUE, until |-> 0, until2 |-> 0]

KprRest ==
    /\ cert = 0 /\ certMuW = FALSE /\ certMuR = 0 /\ timer = "nil" /\ reloadTime = 0
    /\ kprPc = "off" /\ lastIn = NoInput /\ kwg = 0 /\ cbPc = "idle" /\ cbNew = 0
    /\ loaded = 0 /\ reloaded = 0 /\ lastReload = "none" /\ stopping = FALSE
    /\ hs = [h \in HsSlots |-> NoHandshake]

(***************************************************************************)
(* chihaya.Boot: the state when Boot is not running                        *)
(***************************************************************************)
ServerNames == {"http", "udp"}

\* Boot has not started
BootOwnRest ==
    /\ bootPc = "off" /\ bootI = 1 /\ bootWg = 0
    /\ goPc = [n \in ServerNames |-> "none"]
    /\ notify = FALSE /\ shutdown = "none" /\ waiterPc = "none"
    /\ signals = 0 /\ serveLog = <<>> /\ stopLog = <<>> /\ tkrClosed = 0

ConnSlots == 1..MaxConns
NoConn == [pc |-> "none", first |-> <<>>, to |-> {}]
GracefulNames == {"http", "https"}

\* http.NewServer: s.http and s.https are nil, nothing listens
HttpRest ==
    /\ httpPc = "idle" /\ httpErr = "none" /\ httpStop = FALSE /\ listener = "none"
    /\ graceful = [x \in GracefulNames |-> "nil"]
    /\ conns = [c \in ConnSlots |-> NoConn]

BootRest ==
    /\ cfgHTTP = FALSE /\ cfgCert = FALSE /\ cfgKey = FALSE /\ cfgUDP = FALSE
    /\ BootOwnRest /\ HttpRest

(***************************************************************************)
(* udp.Server.Serve and serve                                              *)
(***************************************************************************)
LoopPcs == {"select", "take", "read", "after"}

\* a caller runs Serve() (Boot does it in a goroutine of its own)
CallServe ==
    /\ Alive /\ servePc \in {"idle", "returned"}
    /\ serveCalls < MaxServeCalls
    /\ serveCalls' = serveCalls + 1
    /\ servePc' = "start"
    /\ serveErr' = "none"
    /\ UNCHANGED <<proc, sock, conn, closing, booting, wg, readRes, buffer, loopGave,
                   pool, workers, rotN, stopPc, stopBooted, nonUdpVars>>

\* Serve(): s.wg.Add(1); go <key rotation>; then call serve()
ServeStart ==
    /\ Alive /\ servePc = "start"
    /\ wg' = wg + 1
    /\ rotN' = rotN + 1
    /\ servePc' = "bind"
    /\ UNCHANGED <<proc, sock, conn, closing, booting, serveErr, readRes, buffer,
                   loopGave, pool, workers, serveCalls, stopPc, stopBooted,
                   nonUdpVars>>

\* outcomes of net.ResolveUDPAddr followed by net.ListenUDP
BindOutcomes == {"ok", "resolve", "listen"}

\* serve(): the s.sock != nil check, ResolveUDPAddr, ListenUDP; a failure closes
\* s.booting and returns the error (close of a closed channel panics)
ServeBind ==
    /\ Alive /\ servePc = "bind"
    /\ IF sock # "nil"
       THEN /\ serveErr' = "booted"
            /\ servePc' = "returned"
            /\ UNCHANGED <<proc, conn, booting>>
       ELSE \E r \in BindOutcomes :
              IF r = "ok"
              THEN /\ conn' = "open"
                   /\ servePc' = "assign"
                   /\ UNCHANGED <<proc, booting, serveErr>>
              ELSE IF booting > 0
              THEN /\ proc' = "panic"
                   /\ booting' = booting + 1
                   /\ UNCHANGED <<conn, serveErr, servePc>>
              ELSE /\ booting' = booting + 1
                   /\ serveErr' = r
                   /\ servePc' = "returned"
                   /\ UNCHANGED <<proc, conn>>
    /\ UNCHANGED <<sock, closing, wg, readRes, buffer, loopGave, pool, workers,
                   serveCalls, rotN, stopPc, stopBooted, nonUdpVars>>

\* serve(): pool := bufferpool.New(...); s.sock = sock; close(s.booting)
ServeAssign ==
    /\ Alive /\ servePc = "assign"
    /\ sock' = "set"
    /\ pool' = <<>>
    /\ IF booting > 0
       THEN proc' = "panic" /\ booting' = booting + 1 /\ UNCHANGED servePc
       ELSE booting' = booting + 1 /\ servePc' = "select" /\ UNCHANGED proc
    /\ UNCHANGED <<conn, closing, wg, serveErr, readRes, buffer, loopGave, workers,
                   serveCalls, rotN, stopPc, stopBooted, nonUdpVars>>

\* the `case <-s.closing:` of the loop's select is ready
ClosingObservedNever == FALSE
ClosingObserved == closing

\* the head of the receive loop: return nil (running the deferred sock.Close())
\* when closing is closed, otherwise go on
LoopSelect ==
    /\ Alive /\ servePc = "select"
    /\ IF ClosingObserved
       THEN /\ serveErr' = "nil"
            /\ conn' = "closed"
            /\ servePc' = "returned"
       ELSE /\ servePc' = "take"
            /\ UNCHANGED <<serveErr, conn>>
    /\ readRes' = "none"
    /\ loopGave' = 0
    /\ UNCHANGED <<proc, sock, closing, booting, wg, buffer, pool,
                   workers, serveCalls, rotN, stopPc, stopBooted, nonUdpVars>>

\* buffer := pool.TakeSlice(); sock.SetReadDeadline(now + 1s)
LoopTake ==
    /\ Alive /\ servePc = "take"
    /\ buffer' = TakeSlice
    /\ pool' = PoolAfterTake
    /\ servePc' = "read"
    /\ UNCHANGED <<proc, sock, conn, closing, booting, wg, serveErr, readRes, loopGave,
                   workers,
                   serveCalls, rotN, stopPc, stopBooted, nonUdpVars>>

\* results of sock.ReadFromUDP: a datagram, a temporary error (the read deadline
\* passing is one), a non-temporary error
ReadOutcomes == {"ok", "temp", "fatal"}

\* n, addr, err := sock.ReadFromUDP(buffer); the read deadline bounds the wait
LoopRead ==
    /\ Alive /\ servePc = "read"
    /\ \E r \in ReadOutcomes :
         /\ r = "ok" => IdleWorker # {}
         /\ readRes' = r
    /\ servePc' = "after"
    /\ UNCHANGED <<proc, sock, conn, closing, booting, wg, serveErr, buffer, loopGave,
                   pool, workers, serveCalls, rotN, stopPc, stopBooted, nonUdpVars>>

\* err != nil && netErr.Temporary(): the loop continues
RetryReadNever(r) == FALSE
RetryRead(r) == r = "temp"

\* the loop itself calls pool.GiveSlice(buffer) after this read result
LoopGivesAlways(r) == TRUE
LoopGives(r) == r = "temp"

\* after the read: retry on a temporary error, return a non-temporary one,
\* otherwise s.wg.Add(1) and go <worker>
LoopAfterRead ==
    /\ Alive /\ servePc = "after"
    /\ IF LoopGives(readRes)
       THEN pool' = GiveSlice(pool, buffer) /\ loopGave' = loopGave + 1
       ELSE UNCHANGED <<pool, loopGave>>
    /\ IF readRes = "ok"
       THEN LET w == CHOOSE x \in IdleWorker : \A y \in IdleWorker : x <= y IN
            /\ wg' = wg + 1
            /\ workers' = [workers EXCEPT ![w] =
                             [pc |-> "handle", buf |-> buffer, resp |-> FALSE, gave |-> 0,
                              wrote |-> "no"]]
            /\ buffer' = 0
            /\ servePc' = "select"
            /\ UNCHANGED <<serveErr, conn>>
       ELSE IF RetryRead(readRes)
       THEN /\ buffer' = 0
            /\ servePc' = "select"
            /\ UNCHANGED <<wg, workers, serveErr, conn>>
       ELSE /\ serveErr' = "read"
            /\ conn' = "closed"
            /\ servePc' = "returned"
            /\ UNCHANGED <<wg, workers, buffer>>
    /\ UNCHANGED <<proc, sock, closing, booting, readRes, serveCalls, rotN, stopPc,
                   stopBooted, nonUdpVars>>

(***************************************************************************)
(* The worker goroutine of one datagram                                    *)
(***************************************************************************)
\* response, action, err := s.handlePacket(buffer[:n], addr)
WorkerHandle(w) ==
    /\ Alive /\ workers[w].pc = "handle"
    /\ \E r \in BOOLEAN :
         workers' = [workers EXCEPT ![w].pc = "respond", ![w].resp = r]
    /\ UNCHANGED <<proc, sock, conn, closing, booting, wg, servePc, serveErr, readRes,
                   buffer, loopGave, pool, serveCalls, rotN, stopPc, stopBooted,
                   nonUdpVars>>

\* what sock.WriteToUDP meets: the socket serve() bound, open or already closed
\* by serve()'s deferred sock.Close()
WriteToUDP == conn

\* if len(response) > 0 { sock.WriteToUDP(response, addr) }
WorkerRespond(w) ==
    /\ Alive /\ workers[w].pc = "respond"
    /\ workers' = [workers EXCEPT ![w].pc = "give", ![w].resp = FALSE,
                                   ![w].wrote = IF workers[w].resp THEN WriteToUDP
                                                ELSE "no"]
    /\ UNCHANGED <<proc, sock, conn, closing, booting, wg, servePc, serveErr, readRes,
                   buffer, loopGave, pool, serveCalls, rotN, stopPc, stopBooted,
                   nonUdpVars>>

\* the deferred pool.GiveSlice(buffer)
WorkerGive(w) ==
    /\ Alive /\ workers[w].pc = "give"
    /\ pool' = GiveSlice(pool, workers[w].buf)
    /\ workers' = [workers EXCEPT ![w].pc = "done", ![w].gave = @ + 1,
                                   ![w].wrote = "no"]
    /\ UNCHANGED <<proc, sock, conn, closing, booting, wg, servePc, serveErr, readRes,
                   buffer, loopGave, serveCalls, rotN, stopPc, stopBooted,
                   nonUdpVars>>

\* the slots once the goroutine in slot w is gone: goroutines have no identity,
\* so the ones in the slots after it move down by one
WithoutWorker(w) ==
    [x \in Slots |-> IF x < w THEN workers[x]
                     ELSE IF x + 1 \in Slots THEN workers[x + 1] ELSE NoWorker]

\* the deferred s.wg.Done()
WorkerDone(w) ==
    /\ Alive /\ workers[w].pc = "done"
    /\ wg' = wg - 1
    /\ workers' = WithoutWorker(w)
    /\ UNCHANGED <<proc, sock, conn, closing, booting, servePc, serveErr, readRes,
                   buffer, loopGave, pool, serveCalls, rotN, stopPc, stopBooted,
                   nonUdpVars>>

Worker == \E w \in Slots :
             WorkerHandle(w) \/ WorkerRespond(w) \/ WorkerGive(w) \/ WorkerDone(w)

(***************************************************************************)
(* The key rotation goroutine started by Serve()                           *)
(***************************************************************************)
\* case <-s.closing: return (running the deferred s.wg.Done())
RotExit ==
    /\ Alive /\ rotN > 0 /\ closing
    /\ rotN' = rotN - 1
    /\ wg' = wg - 1
    /\ UNCHANGED <<proc, sock, conn, closing, booting, servePc, serveErr, readRes,
                   buffer, loopGave, pool, workers, serveCalls, stopPc, stopBooted,
                   nonUdpVars>>

\* (the other case of its select, <-time.After(time.Hour), calls
\* s.connIDGen.NewIV(), which touches none of the state modelled here and leaves
\* the goroutine in the same select)

(***************************************************************************)
(* udp.Server.Stop                                                         *)
(***************************************************************************)
\* a caller runs Stop() (Boot does it once per server)
CallStop ==
    /\ Alive /\ stopPc = "idle"
    /\ stopPc' = "close"
    /\ UNCHANGED <<proc, sock, conn, closing, booting, wg, servePc, serveErr, readRes,
                   buffer, loopGave, pool, workers, serveCalls, rotN, stopBooted,
                   nonUdpVars>>

\* close(s.closing)
StopClose ==
    /\ Alive /\ stopPc = "close"
    /\ closing' = TRUE
    /\ stopBooted' = (sock = "set" /\ servePc \in LoopPcs)
    /\ stopPc' = "deadline"
    /\ UNCHANGED <<proc, sock, conn, booting, wg, servePc, serveErr, readRes, buffer,
                   loopGave, pool, workers, serveCalls, rotN, nonUdpVars>>

\* s.sock.SetReadDeadline(time.Now()): a method call through a nil *net.UDPConn
\* is a nil pointer dereference, an unrecovered panic
StopDeadline ==
    /\ Alive /\ stopPc = "deadline"
    /\ IF sock = "nil"
       THEN proc' = "panic" /\ UNCHANGED stopPc
       ELSE stopPc' = "wait" /\ UNCHANGED proc
    /\ UNCHANGED <<sock, conn, closing, booting, wg, servePc, serveErr, readRes, buffer,
                   loopGave, pool, workers, serveCalls, rotN, stopBooted,
                   nonUdpVars>>

\* s.wg.Wait() returns when the counter is zero
StopWait ==
    /\ Alive /\ stopPc = "wait"
    /\ wg = 0
    /\ stopPc' = "returned"
    /\ UNCHANGED <<proc, sock, conn, closing, booting, wg, servePc, serveErr, readRes,
                   buffer, loopGave, pool, workers, serveCalls, rotN, stopBooted,
                   nonUdpVars>>

(***************************************************************************)
(* The UDP server on its own: a caller that runs Serve() and Stop()        *)
(***************************************************************************)
UdpRest ==
    /\ sock = "nil" /\ conn = "none" /\ closing = FALSE /\ booting = 0 /\ wg = 0
    /\ servePc = "idle" /\ serveErr = "none" /\ readRes = "none"
    /\ buffer = 0 /\ loopGave = 0 /\ pool = <<>>
    /\ workers = [w \in Slots |-> NoWorker]
    /\ serveCalls = 0 /\ rotN = 0
    /\ stopPc = "idle" /\ stopBooted = FALSE

InitUDP == proc = "running" /\ UdpRest /\ KprRest /\ BootRest

ServeStep == ServeStart \/ ServeBind \/ ServeAssign \/ LoopSelect \/ LoopTake
                \/ LoopRead \/ LoopAfterRead
StopStep == StopClose \/ StopDeadline \/ StopWait

NextUDP == CallServe \/ ServeStart \/ ServeBind \/ ServeAssign \/ LoopSelect \/ LoopTake
              \/ LoopRead \/ LoopAfterRead \/ Worker \/ RotExit
              \/ CallStop \/ StopClose \/ StopDeadline \/ StopWait

SpecUDP == InitUDP /\ [][NextUDP]_vars

\* the Go scheduler runs every runnable goroutine; every read ends by its deadline
SpecUDPFair == SpecUDP /\ WF_vars(ServeStep) /\ WF_vars(Worker) /\ WF_vars(RotExit)
                  /\ WF_vars(StopStep)

(***************************************************************************)
(* Claims about the UDP server (checked under SpecUDP / SpecUDPFair)       *)
(***************************************************************************)
ActiveWorkers == {w \in Slots : workers[w].pc # "idle"}

\* C1: for a server whose serve() had booted when Stop() began, once Stop() has
\* returned no worker goroutine is running: every worker dispatched before has
\* finished and the receive loop dispatches none afterwards.
C1_StopLeavesNoWorker ==
    (stopBooted /\ stopPc = "returned") => ActiveWorkers = {}

ShutdownDone == servePc = "returned" /\ rotN = 0 /\ stopPc = "returned"
LoopReturns == stopBooted /\ servePc \in LoopPcs /\ servePc' = "returned"

\* C2 (as stated): after Stop() closes closing on a booted server, serve()
\* returns, the key rotation goroutine exits and Stop() returns, and the value
\* serve() returns is nil.
C2_ShutdownCompletesWithNil ==
    /\ stopBooted ~> ShutdownDone
    /\ [][LoopReturns => serveErr' = "nil"]_vars

\* C2 (amended): after Stop() closes closing on a booted server, serve()
\* returns, the key rotation goroutine exits and Stop() returns; serve() returns
\* nil unless a read fails with a non-temporary error, which it returns instead.
C2_ShutdownCompletes ==
    /\ stopBooted ~> ShutdownDone
    /\ [][LoopReturns => (serveErr' = "nil" \/ (serveErr' = "read" /\ readRes = "fatal"))]_vars

\* C2 witness: a booted server fully shut down, serve() having returned nil
C2_Witness == stopBooted /\ ShutdownDone /\ serveErr = "nil"

\* C3: Stop() never faults on an unset s.sock, whenever it is called.
C3_StopNeverFaults == ~(stopPc = "deadline" /\ proc = "panic")

\* C4: a temporary read error never ends the receive loop (the loop goes back to
\* its head); serve() returns nil only when closing is closed, and an error only
\* for a non-temporary read error, a resolve or bind failure, or a server that
\* was already booted.
C4_ServeReturns ==
    /\ [](serveErr \in {"none", "nil", "read", "resolve", "listen", "booted"})
    /\ [](serveErr = "nil" => closing)
    /\ [](serveErr = "read" => readRes = "fatal")
    /\ [](serveErr \in {"resolve", "listen"} => conn # "open")
    /\ [](serveErr = "booted" => sock = "set")
    /\ [][(servePc = "after" /\ readRes = "temp" /\ servePc' # "after")
             => (servePc' = "select" /\ serveErr' = "none")]_vars

\* C4 witness: the loop is back at its head after a temporary read error
C4_Witness == servePc = "select" /\ readRes = "temp" /\ serveErr = "none" /\ ~closing

NoDup(q) == \A i, j \in 1..Len(q) : q[i] = q[j] => i = j
InUse(w) == workers[w].pc \in {"handle", "respond", "give"}

\* the buffer discipline common to C5 as stated and as amended
BufferDiscipline ==
    /\ NoDup(pool)
    /\ \A w \in Slots :
         /\ InUse(w) => /\ workers[w].gave = 0
                        /\ workers[w].buf \notin SeqRange(pool)
                        /\ workers[w].buf # buffer
                        /\ \A v \in Slots : (v # w /\ InUse(v)) => workers[v].buf # workers[w].buf
         /\ workers[w].pc = "done" => workers[w].gave = 1
    /\ servePc \in {"read", "after"} =>
         (buffer # 0 /\ buffer \notin SeqRange(pool) /\ loopGave = 0)
    /\ (servePc = "select" /\ readRes = "temp") => (loopGave = 1 /\ buffer = 0)
    /\ (servePc = "select" /\ readRes = "ok") => (loopGave = 0 /\ buffer = 0)

\* C5 (as stated): every buffer taken is given back exactly once on every path,
\* never while in use: by the loop when the read fails (temporary or not), by the
\* worker after handlePacket and the response otherwise.
C5_EveryBufferGivenBack ==
    /\ BufferDiscipline
    /\ serveErr = "read" => loopGave = 1

\* C5 (amended): a buffer is given back at most once and never while in use: by
\* the loop, once, when the read fails with a temporary error; by the worker,
\* once, after handlePacket and the response; when the read fails with a
\* non-temporary error serve() returns without giving the buffer back.
C5_BufferGivenBack ==
    /\ BufferDiscipline
    /\ serveErr = "read" => (loopGave = 0 /\ buffer # 0 /\ buffer \notin SeqRange(pool))

\* C5 witness: the loop gave its buffer back after a temporary error while a
\* worker has given back its own
C5_Witness ==
    /\ servePc = "select" /\ readRes = "temp" /\ loopGave = 1
    /\ \E w \in Slots : workers[w].pc = "done" /\ workers[w].gave = 1

\* C15: the socket is closed only after every dispatched worker has finished, and
\* no worker writes its response to the socket after serve() has returned and
\* its deferred Close has run.
C15_SocketOutlivesWorkers ==
    /\ conn = "closed" => ActiveWorkers = {}
    /\ \A w \in Slots : workers[w].wrote # "closed"

\* C18: over any sequence of serve() calls booting is closed exactly once (never
\* twice; once as soon as a call that went on to bind has returned); whenever it is
\* closed after a successful bind s.sock is set; a call that returned 'server
\* already booted' left s.sock set and booting closed once.
C18_BootingClosedOnce ==
    /\ booting <= 1
    /\ (servePc = "returned" /\ serveCalls > 0) => booting = 1
    /\ servePc \in LoopPcs => (sock = "set" /\ booting >= 1)
    /\ serveErr = "booted" => (sock = "set" /\ booting = 1)

(***************************************************************************)
(* http.keypairReloader: the reload loop goroutine of NewKeypairReloader   *)
(***************************************************************************)
\* readings of time.Until(pCert.NotAfter), in seconds
UntilSamples == {0 - Hour, 0 - 1, 0, 1, Hour - 1, Hour, Hour + 1, 2 * Hour}

\* time.Second * 6 * 3600
DefaultReloadTime == 6 * Hour

Max(a, b) == IF a >= b THEN a ELSE b

\* result.reloadTime as the loop computes it: `until` is the first reading of
\* time.Until(pCert.NotAfter), `until2` the second one (taken a moment later)
ReloadTimeClamped(parses, until, until2) ==
    IF ~parses THEN DefaultReloadTime ELSE Max(0, until - Hour)
ReloadTime(parses, until, until2) ==
    IF ~parses THEN DefaultReloadTime
    ELSE IF until - Hour < 0 THEN until2
    ELSE until - Hour

\* pCert, err := x509.ParseCertificate(...); result.reloadTime = ...
KprCompute ==
    /\ Alive /\ kprPc = "compute"
    /\ \E p \in BOOLEAN, u \in UntilSamples, d \in 0..MaxDrift :
         /\ lastIn' = [parses |-> p, until |-> u, until2 |-> u - d]
         /\ reloadTime' = ReloadTime(p, u, u - d)
    /\ kprPc' = "arm"
    /\ UNCHANGED <<proc, cert, certMuW, certMuR, timer, kwg, cbPc, cbNew, loaded,
                   reloaded, lastReload, stopping, hs, nonKprVars>>

\* result.timer = time.AfterFunc(result.reloadTime, ...) the first time,
\* result.timer.Reset(result.reloadTime) afterwards
KprArm ==
    /\ Alive /\ kprPc = "arm"
    /\ timer' = "armed"
    /\ lastIn' = NoInput
    /\ kprPc' = "add"
    /\ UNCHANGED <<proc, cert, certMuW, certMuR, reloadTime, kwg, cbPc, cbNew, loaded,
                   reloaded, lastReload, stopping, hs, nonKprVars>>

\* wg.Add(1)
KprAdd ==
    /\ Alive /\ kprPc = "add"
    /\ kwg' = kwg + 1
    /\ kprPc' = "wait"
    /\ UNCHANGED <<proc, cert, certMuW, certMuR, timer, reloadTime, lastIn, cbPc, cbNew,
                   loaded, reloaded, lastReload, stopping, hs, nonKprVars>>

\* wg.Wait() returns when the counter is zero; the loop starts over
KprWait ==
    /\ Alive /\ kprPc = "wait"
    /\ kwg = 0
    /\ kprPc' = "compute"
    /\ UNCHANGED <<proc, cert, certMuW, certMuR, timer, reloadTime, lastIn, kwg, cbPc,
                   cbNew, loaded, reloaded, lastReload, stopping, hs, nonKprVars>>

(***************************************************************************)
(* The timer callback: maybeReload(), then wg.Done()                       *)
(***************************************************************************)
\* the armed timer expires (at once when reloadTime <= 0) and the runtime
\* starts the callback in a goroutine of its own
TimerFire ==
    /\ Alive /\ timer = "armed" /\ cbPc = "idle"
    /\ timer' = "fired"
    /\ cbPc' = "load"
    /\ UNCHANGED <<proc, cert, certMuW, certMuR, reloadTime, kprPc, lastIn, kwg, cbNew,
                   loaded, reloaded, lastReload, stopping, hs, nonKprVars>>

\* maybeReload: `if err != nil { return err }` after tls.LoadX509KeyPair
LoadErrorReturned(ok) == ~ok

\* newCert, err := tls.LoadX509KeyPair(kpr.certPath, kpr.keyPath)
CbLoad ==
    /\ Alive /\ cbPc = "load"
    /\ \E ok \in BOOLEAN :
         /\ ok => loaded < MaxReloads + 1
         /\ loaded' = IF ok THEN loaded + 1 ELSE loaded
         /\ cbNew' = IF ok THEN loaded + 1 ELSE 0
         /\ IF LoadErrorReturned(ok)
            THEN lastReload' = "failed" /\ cbPc' = "done"
            ELSE cbPc' = "lock" /\ lastReload' = IF ok THEN lastReload ELSE "failed"
    /\ UNCHANGED <<proc, cert, certMuW, certMuR, timer, reloadTime, kprPc, lastIn, kwg,
                   reloaded, stopping, hs, nonKprVars>>

\* kpr.certMu.Lock()
CbLock ==
    /\ Alive /\ cbPc = "lock"
    /\ ~certMuW /\ certMuR = 0
    /\ certMuW' = TRUE
    /\ cbPc' = "store"
    /\ UNCHANGED <<proc, cert, certMuR, timer, reloadTime, kprPc, lastIn, kwg, cbNew,
                   loaded, reloaded, lastReload, stopping, hs, nonKprVars>>

InHook(h) == hs[h].pc \in {"rlock", "read"}

\* kpr.cert = &newCert
CbStore ==
    /\ Alive /\ cbPc = "store"
    /\ cert' = cbNew
    /\ hs' = [h \in HsSlots |->
                IF InHook(h) THEN [hs[h] EXCEPT !.seen = @ \cup {cbNew}] ELSE hs[h]]
    /\ cbPc' = "unlock"
    /\ UNCHANGED <<proc, certMuW, certMuR, timer, reloadTime, kprPc, lastIn, kwg, cbNew,
                   loaded, reloaded, lastReload, stopping, nonKprVars>>

\* the deferred kpr.certMu.Unlock(); maybeReload returns nil
CbUnlock ==
    /\ Alive /\ cbPc = "unlock"
    /\ certMuW' = FALSE
    /\ reloaded' = cert
    /\ lastReload' = IF lastReload = "failed" THEN lastReload ELSE "ok"
    /\ cbPc' = "done"
    /\ UNCHANGED <<proc, cert, certMuR, timer, reloadTime, kprPc, lastIn, kwg, cbNew,
                   loaded, stopping, hs, nonKprVars>>

\* wg.Done(): the counter is decremented, and a negative counter panics
\* ("sync: negative WaitGroup counter")
CbDone ==
    /\ Alive /\ cbPc = "done"
    /\ kwg' = kwg - 1
    /\ IF kwg = 0
       THEN proc' = "panic" /\ UNCHANGED cbPc
       ELSE cbPc' = "idle" /\ UNCHANGED proc
    /\ UNCHANGED <<cert, certMuW, certMuR, timer, reloadTime, kprPc, lastIn, cbNew,
                   loaded, reloaded, lastReload, stopping, hs, nonKprVars>>

(***************************************************************************)
(* GetCertificateFunc: the hook a TLS handshake calls                      *)
(***************************************************************************)
\* a handshake calls the hook
HsCall(h) ==
    /\ Alive /\ kprPc # "off" /\ hs[h].pc = "idle"
    /\ hs' = [hs EXCEPT ![h] = [pc |-> "rlock", got |-> 0, seen |-> {cert},
                                min |-> reloaded]]
    /\ UNCHANGED <<proc, cert, certMuW, certMuR, timer, reloadTime, kprPc, lastIn, kwg,
                   cbPc, cbNew, loaded, reloaded, lastReload, stopping, nonKprVars>>

\* kpr.certMu.RLock()
HsRLock(h) ==
    /\ Alive /\ hs[h].pc = "rlock"
    /\ ~certMuW
    /\ certMuR' = certMuR + 1
    /\ hs' = [hs EXCEPT ![h].pc = "read"]
    /\ UNCHANGED <<proc, cert, certMuW, timer, reloadTime, kprPc, lastIn, kwg, cbPc,
                   cbNew, loaded, reloaded, lastReload, stopping, nonKprVars>>

\* the pair the hook returns
HookResultStale == IF cert > 1 THEN cert - 1 ELSE cert
HookResult == cert

\* return kpr.cert, nil (running the deferred kpr.certMu.RUnlock())
HsReturn(h) ==
    /\ Alive /\ hs[h].pc = "read"
    /\ certMuR' = certMuR - 1
    /\ hs' = [hs EXCEPT ![h].pc = "done", ![h].got = HookResult]
    /\ UNCHANGED <<proc, cert, certMuW, timer, reloadTime, kprPc, lastIn, kwg, cbPc,
                   cbNew, loaded, reloaded, lastReload, stopping, nonKprVars>>

\* the handshake goes on with the pair it got; the slot is free again
HsEnd(h) ==
    /\ Alive /\ hs[h].pc = "done"
    /\ hs' = [hs EXCEPT ![h] = NoHandshake]
    /\ UNCHANGED <<proc, cert, certMuW, certMuR, timer, reloadTime, kprPc, lastIn, kwg,
                   cbPc, cbNew, loaded, reloaded, lastReload, stopping, nonKprVars>>

Handshake == \E h \in HsSlots : HsCall(h) \/ HsRLock(h) \/ HsReturn(h) \/ HsEnd(h)

(***************************************************************************)
(* s.https.ShutdownInitiated, installed by http.Server.Serve               *)
(***************************************************************************)
\* func() { s.stopping = true; kpr.timer.Stop() }: Stop through a nil *time.Timer
\* is a nil pointer dereference; Stop on an armed timer cancels it, and does
\* nothing to one that has fired
ShutdownInitiated ==
    /\ Alive /\ kprPc # "off" /\ ~stopping
    /\ stopping' = TRUE
    /\ IF timer = "nil"
       THEN proc' = "panic" /\ UNCHANGED timer
       ELSE /\ timer' = IF timer = "armed" THEN "stopped" ELSE timer
            /\ UNCHANGED proc
    /\ UNCHANGED <<cert, certMuW, certMuR, reloadTime, kprPc, lastIn, kwg, cbPc, cbNew,
                   loaded, reloaded, lastReload, hs, nonKprVars>>

(***************************************************************************)
(* The reloader on its own, from the return of NewKeypairReloader: the     *)
(* first pair is loaded and the loop goroutine started                     *)
(***************************************************************************)
InitKPR ==
    /\ proc = "running" /\ UdpRest /\ BootRest
    /\ cert = 1 /\ certMuW = FALSE /\ certMuR = 0 /\ timer = "nil" /\ reloadTime = 0
    /\ kprPc = "compute" /\ lastIn = NoInput /\ kwg = 0 /\ cbPc = "idle" /\ cbNew = 0
    /\ loaded = 1 /\ reloaded = 1 /\ lastReload = "none" /\ stopping = FALSE
    /\ hs = [h \in HsSlots |-> NoHandshake]

KprLoop == KprCompute \/ KprArm \/ KprAdd \/ KprWait
Callback == CbLoad \/ CbLock \/ CbStore \/ CbUnlock \/ CbDone

NextKPR == KprCompute \/ KprArm \/ KprAdd \/ KprWait \/ TimerFire
              \/ CbLoad \/ CbLock \/ CbStore \/ CbUnlock \/ CbDone
              \/ Handshake \/ ShutdownInitiated

SpecKPR == InitKPR /\ [][NextKPR]_vars

\* the Go scheduler runs every runnable goroutine, and an armed timer expires
SpecKPRFair == SpecKPR /\ WF_vars(KprLoop) /\ WF_vars(Callback) /\ WF_vars(TimerFire)

(***************************************************************************)
(* Claims about the key pair reloader (checked under SpecKPR)              *)
(***************************************************************************)
Computed == kprPc = "arm"

\* C6 (as stated): the delay is max(0, (NotAfter - now) - 1 hour) for every
\* certificate that parses, and 6 hours for one that does not.
C6_DelayIsClamped ==
    Computed => reloadTime = (IF lastIn.parses THEN Max(0, lastIn.until - Hour)
                              ELSE 6 * Hour)

\* C6 (amended): the delay is (NotAfter - now) - 1 hour when that is not
\* negative; when it is negative the delay is NotAfter - now, read again: under
\* an hour for a certificate about to expire, negative for an expired one; it is
\* 6 hours for a certificate that does not parse.
C6_Delay ==
    Computed =>
      /\ ~lastIn.parses => reloadTime = 6 * Hour
      /\ (lastIn.parses /\ lastIn.until >= Hour) =>
            (reloadTime = lastIn.until - Hour /\ reloadTime >= 0)
      /\ (lastIn.parses /\ lastIn.until < Hour) =>
            (reloadTime = lastIn.until2 /\ reloadTime < Hour)
      /\ (lastIn.parses /\ lastIn.until < 0) => reloadTime < 0

\* C6 witness: the delay computed for a certificate that expires within the hour
C6_Witness ==
    Computed /\ lastIn.parses /\ lastIn.until > 0 /\ lastIn.until < Hour /\ reloadTime > 0

\* C7: when a reload attempt has failed to load the key pair, the cached pair is
\* still the one of the last successful load and the reload task goes on (the
\* process has not died) to schedule a further attempt.
C7_FailedReloadGoesOn ==
    (lastReload = "failed" /\ cbPc = "done") => (cert = reloaded /\ proc = "running")

\* C8: the hook never returns nil; the pair it returns was the cached pair at
\* some moment of the call, and is at least as new as the pair of the last
\* reload that had returned when the call began.
C8_HookReturnsCachedPair ==
    /\ kprPc # "off" => cert # 0
    /\ \A h \in HsSlots :
         hs[h].pc = "done" =>
            (hs[h].got # 0 /\ hs[h].got \in hs[h].seen /\ hs[h].got >= hs[h].min)

\* C8 witness: a handshake that began after a reload had returned and overlapped
\* the next swap has its pair
C8_Witness ==
    \E h \in HsSlots : hs[h].pc = "done" /\ hs[h].min = 2 /\ hs[h].seen = {2, 3}

\* C9: at most one reload is pending or running, and once ShutdownInitiated has
\* run the timer is never armed again (so no further reload attempt starts).
C9_ShutdownCancelsReload ==
    /\ timer = "armed" => cbPc = "idle"
    /\ stopping => timer # "armed"

\* C14: the WaitGroup counter of the reload task never becomes negative: the
\* callback's wg.Done() never runs before the loop's matching wg.Add(1).
C14_CounterNeverNegative == kwg >= 0

(***************************************************************************)
(* http.Server.Serve: one TCP listener, a cmux over it, the plain HTTP     *)
(* server and, when TLS is configured, the HTTPS server                    *)
(***************************************************************************)
\* s.config.HTTPConfig.TLSCertPath != "" && s.config.HTTPConfig.TLSKeyPath != ""
cfgTLS == cfgCert /\ cfgKey

\* l, err := net.Listen("tcp", ...); if err != nil { panic(err) };
\* mux := cmux.New(l); httpListener := mux.Match(cmux.HTTP1Fast())
HttpListen ==
    /\ Alive /\ httpPc = "listen"
    /\ \E ok \in BOOLEAN :
         IF ok
         THEN /\ httpPc' = IF cfgTLS THEN "tls" ELSE "setup"
              /\ listener' = "open"
              /\ UNCHANGED <<proc, httpErr>>
         ELSE /\ httpErr' = "listen"
              /\ proc' = "panic"
              /\ UNCHANGED <<httpPc, listener>>
    /\ UNCHANGED <<udpVars, kprVars, cfgVars, bootOwn, httpStop, graceful, conns>>

\* kpr, err := NewKeypairReloader(...); if err != nil { panic(err) };
\* s.https = newGraceful(s, true); ...; go s.https.Serve(httpsListener)
HttpTLS ==
    /\ Alive /\ httpPc = "tls"
    /\ \E ok \in BOOLEAN :
         IF ok
         THEN /\ httpPc' = "setup"
              /\ graceful' = [graceful EXCEPT !["https"] = "serving"]
              /\ UNCHANGED <<proc, httpErr>>
         ELSE /\ httpErr' = "tls"
              /\ proc' = "panic"
              /\ UNCHANGED <<httpPc, graceful>>
    /\ UNCHANGED <<udpVars, kprVars, cfgVars, bootOwn, httpStop, listener, conns>>

\* s.http = newGraceful(s, false); ...; go s.http.Serve(httpListener); mux.Serve()
HttpSetup ==
    /\ Alive /\ httpPc = "setup"
    /\ graceful' = [graceful EXCEPT !["http"] = "serving"]
    /\ httpPc' = "serving"
    /\ UNCHANGED <<proc, udpVars, kprVars, cfgVars, bootOwn, httpErr, httpStop, listener,
                   conns>>

\* mux.Serve() returns once the listener is closed: l.Accept() fails with "use of
\* closed network connection", which Serve() does not panic on; Serve() returns
\* without waiting for the two goroutines it started
HttpReturn ==
    /\ Alive /\ httpPc = "serving" /\ listener = "closed"
    /\ httpPc' = "returned"
    /\ UNCHANGED <<proc, udpVars, kprVars, cfgVars, bootOwn, httpErr, httpStop, listener,
                   graceful, conns>>

(***************************************************************************)
(* cmux: the connections mux.Serve() accepts and hands to the matchers     *)
(***************************************************************************)
\* the request methods cmux.HTTP1Fast() looks for
HTTPMethods == {"OPTIONS", "GET", "HEAD", "POST", "PUT", "DELETE", "TRACE", "CONNECT"}

\* samples of what a client sends first, as tokens: two HTTP/1 request lines, a
\* method followed by something else, a TLS ClientHello, another protocol
FirstBytes == {<<"GET", "/announce", "HTTP/1.1">>, <<"POST", "/", "HTTP/1.0">>,
               <<"GET", "x">>, <<"0x16", "0x03", "0x01">>, <<"SSH-2.0">>}

\* cmux.HTTP1Fast(): the bytes begin with a request method
HTTP1Fast(b) == Len(b) > 0 /\ b[1] \in HTTPMethods
\* cmux.Any()
MatchAny(b) == TRUE

\* the matchers in the order Serve() registers them with mux.Match
Matchers == <<[l |-> "http", m |-> "HTTP1Fast"]>>
               \o (IF cfgTLS THEN <<[l |-> "https", m |-> "MatchAny"]>> ELSE <<>>)

Matching(b) == {i \in 1..Len(Matchers) :
                   IF Matchers[i].m = "HTTP1Fast" THEN HTTP1Fast(b) ELSE MatchAny(b)}

\* the listeners a connection is handed to: the one of the first matcher that
\* matches, none when no matcher does
RouteEvery(b) == {Matchers[i].l : i \in Matching(b)}
Route(b) == LET m == Matching(b) IN
            IF m = {} THEN {}
            ELSE {Matchers[CHOOSE i \in m : \A j \in m : i <= j].l}

\* mux.Serve(): c, err := l.Accept(); go m.serve(c, ...)
MuxAccept(c) ==
    /\ Alive /\ httpPc = "serving" /\ listener = "open"
    /\ conns[c].pc = "none"
    /\ \E b \in FirstBytes :
         conns' = [conns EXCEPT ![c] = [pc |-> "accepted", first |-> b, to |-> {}]]
    /\ UNCHANGED <<proc, udpVars, kprVars, cfgVars, bootOwn, httpPc, httpErr, httpStop,
                   listener, graceful>>

\* m.serve(c): the connection goes to the listener of the first matcher that
\* matches, whose server takes it in Accept; it is closed when no matcher
\* matches, or when mux.Serve() has returned before a server took it
MuxRoute(c) ==
    /\ Alive /\ conns[c].pc = "accepted"
    /\ LET t == Route(conns[c].first) IN
       IF t = {}
       THEN conns' = [conns EXCEPT ![c].pc = "closed"]
       ELSE \/ /\ \A x \in t : graceful[x] = "serving"
               /\ httpPc = "serving"
               /\ conns' = [conns EXCEPT ![c].pc = "routed", ![c].to = t]
            \/ /\ httpPc = "returned"
               /\ conns' = [conns EXCEPT ![c].pc = "closed"]
    /\ UNCHANGED <<proc, udpVars, kprVars, cfgVars, bootOwn, httpPc, httpErr, httpStop,
                   listener, graceful>>

(***************************************************************************)
(* http.Server.Stop and the graceful servers                               *)
(***************************************************************************)
\* if !s.stopping { s.http.Stop(s.http.Timeout); if s.https != nil { ... } }:
\* s.http.Timeout through a nil s.http is a nil pointer dereference; Stop only
\* queues the interrupt of each graceful server and returns
HttpStop ==
    IF stopping THEN UNCHANGED <<proc, httpStop>>
    ELSE IF graceful["http"] = "nil"
    THEN proc' = "panic" /\ UNCHANGED httpStop
    ELSE httpStop' = TRUE /\ UNCHANGED proc

\* a caller runs Stop() on the HTTP server
CallHttpStop ==
    /\ Alive /\ ~httpStop /\ httpPc # "idle"
    /\ HttpStop
    /\ UNCHANGED <<udpVars, kprVars, cfgVars, bootOwn, httpPc, httpErr, listener,
                   graceful, conns>>

\* a graceful server handles its interrupt: it closes its listener (the cmux
\* listeners embed the TCP listener, so this closes l) and calls ShutdownInitiated:
\* s.stopping = true and, for HTTPS, kpr.timer.Stop(), a nil pointer dereference
\* when the reload goroutine has not yet set kpr.timer
GracefulInterrupt(x) ==
    /\ Alive /\ httpStop /\ graceful[x] = "serving"
    /\ graceful' = [graceful EXCEPT ![x] = "interrupted"]
    /\ listener' = "closed"
    /\ stopping' = TRUE
    /\ IF x = "https"
       THEN \E timerSet \in BOOLEAN : IF timerSet THEN UNCHANGED proc ELSE proc' = "panic"
       ELSE UNCHANGED proc
    /\ UNCHANGED <<udpVars, cert, certMuW, certMuR, timer, reloadTime, kprPc, lastIn, kwg,
                   cbPc, cbNew, loaded, reloaded, lastReload, hs, cfgVars, bootOwn,
                   httpPc, httpErr, httpStop, conns>>

\* the goroutine of a graceful server ends: an interrupted server once its
\* connections are finished (or its timeout has passed), another one once
\* mux.Serve() has returned and its Accept fails with cmux.ErrListenerClosed
GracefulDone(x) ==
    /\ Alive
    /\ \/ graceful[x] = "interrupted"
       \/ graceful[x] = "serving" /\ httpPc = "returned"
    /\ graceful' = [graceful EXCEPT ![x] = "done"]
    /\ UNCHANGED <<proc, udpVars, kprVars, cfgVars, bootOwn, httpPc, httpErr, httpStop,
                   listener, conns>>

Graceful == \E x \in GracefulNames : GracefulInterrupt(x) \/ GracefulDone(x)
Mux == \E c \in ConnSlots : MuxAccept(c) \/ MuxRoute(c)

(***************************************************************************)
(* The HTTP server on its own: a caller that has run Serve() and runs      *)
(* Stop(), and clients that connect                                        *)
(***************************************************************************)
InitHTTP ==
    /\ proc = "running" /\ UdpRest /\ KprRest
    /\ cfgHTTP = TRUE /\ cfgUDP = FALSE /\ cfgCert \in BOOLEAN /\ cfgKey \in BOOLEAN
    /\ BootOwnRest
    /\ httpPc = "listen" /\ httpErr = "none" /\ httpStop = FALSE /\ listener = "none"
    /\ graceful = [x \in GracefulNames |-> "nil"]
    /\ conns = [c \in ConnSlots |-> NoConn]

NextHTTP == HttpListen \/ HttpTLS \/ HttpSetup \/ HttpReturn \/ Mux \/ CallHttpStop
               \/ Graceful

SpecHTTP == InitHTTP /\ [][NextHTTP]_vars

(***************************************************************************)
(* Claims about the HTTP server (checked under SpecHTTP)                   *)
(***************************************************************************)
\* the first bytes are an HTTP/1 request line: method, target, version
MethodLine(b) == Len(b) = 3 /\ b[1] \in HTTPMethods /\ b[3] \in {"HTTP/1.0", "HTTP/1.1"}

\* HTTPS is served on the listener exactly when both paths are configured
HttpsIffBothPaths ==
    httpPc \in {"setup", "serving", "returned"} =>
       ((graceful["https"] # "nil") <=> (cfgCert /\ cfgKey))

\* C12 (as stated): every connection accepted on the listener is routed to exactly
\* one server: the plain HTTP server when its first bytes are an HTTP/1 method
\* line, the TLS server in every other case; HTTPS is served exactly when both
\* the certificate path and the key path are configured.
C12_RoutedToExactlyOne ==
    /\ \A c \in ConnSlots :
         conns[c].pc \in {"routed", "closed"} =>
            /\ Cardinality(conns[c].to) = 1
            /\ MethodLine(conns[c].first) => conns[c].to = {"http"}
            /\ ~MethodLine(conns[c].first) => conns[c].to = {"https"}
    /\ HttpsIffBothPaths

\* C12 (amended): a connection is routed to at most one server: to the plain HTTP
\* server when its first bytes begin with an HTTP/1 request method, otherwise to
\* the TLS server when HTTPS is configured; it is closed without reaching a
\* server when it does not begin with a method and HTTPS is not configured, or
\* when the listener was shut down before a server took it; HTTPS is served
\* exactly when both the certificate path and the key path are configured.
C12_Routing ==
    /\ \A c \in ConnSlots :
         /\ conns[c].pc = "routed" =>
               /\ Cardinality(conns[c].to) = 1
               /\ HTTP1Fast(conns[c].first) => conns[c].to = {"http"}
               /\ ~HTTP1Fast(conns[c].first) => (conns[c].to = {"https"} /\ cfgCert /\ cfgKey)
         /\ conns[c].pc = "closed" =>
               /\ conns[c].to = {}
               /\ \/ ~HTTP1Fast(conns[c].first) /\ ~(cfgCert /\ cfgKey)
                  \/ httpPc = "returned"
    /\ HttpsIffBothPaths

\* C12 witness: with HTTPS configured, one connection has gone to the plain HTTP
\* server and another to the TLS server
C12_Witness ==
    /\ cfgCert /\ cfgKey
    /\ \E c, d \in ConnSlots :
         /\ conns[c].pc = "routed" /\ MethodLine(conns[c].first) /\ conns[c].to = {"http"}
         /\ conns[d].pc = "routed" /\ ~HTTP1Fast(conns[d].first) /\ conns[d].to = {"https"}

(***************************************************************************)
(* chihaya.Boot                                                            *)
(***************************************************************************)
\* `servers`, in the order Boot appends them (this model registers no API server)
Servers == (IF cfgHTTP THEN <<"http">> ELSE <<>>) \o (IF cfgUDP THEN <<"udp">> ELSE <<>>)

\* the server the goroutine started in iteration i runs Serve() on: the loop
\* variable is passed as the argument of go func(srv server) {...}(srv)
GoTargetLast(i) == Servers[Len(Servers)]
GoTarget(i) == Servers[i]

\* for _, srv := range servers { wg.Add(1); go func(srv server) {...}(srv) }
BootGo ==
    /\ Alive /\ bootPc = "go"
    /\ IF bootI <= Len(Servers)
       THEN LET n == GoTarget(bootI) IN
            /\ bootWg' = bootWg + 1
            /\ goPc' = [goPc EXCEPT ![n] = "running"]
            /\ serveLog' = Append(serveLog, n)
            /\ bootI' = bootI + 1
            /\ IF n = "udp"
               THEN /\ servePc' = "start" /\ serveCalls' = serveCalls + 1
                    /\ UNCHANGED httpPc
               ELSE /\ httpPc' = "listen"
                    /\ UNCHANGED <<servePc, serveCalls>>
            /\ UNCHANGED bootPc
       ELSE /\ bootPc' = "notify"
            /\ bootI' = 1
            /\ UNCHANGED <<bootWg, goPc, serveLog, servePc, serveCalls, httpPc>>
    /\ UNCHANGED <<proc, sock, conn, closing, booting, wg, serveErr, readRes, buffer,
                   loopGave, pool, workers, rotN, stopPc, stopBooted, kprVars, cfgVars,
                   notify, shutdown, waiterPc, signals, stopLog, tkrClosed, httpErr,
                   httpStop, listener, graceful, conns>>

\* the goroutine of a server: srv.Serve() has returned, the deferred wg.Done() runs
ServeReturned(n) == IF n = "udp" THEN servePc = "returned" ELSE httpPc = "returned"

BootGoDone ==
    /\ Alive
    /\ \E n \in ServerNames :
         /\ goPc[n] = "running" /\ ServeReturned(n)
         /\ goPc' = [goPc EXCEPT ![n] = "done"]
    /\ bootWg' = bootWg - 1
    /\ UNCHANGED <<proc, udpVars, kprVars, cfgVars, httpVars, bootPc, bootI, notify,
                   shutdown, waiterPc, signals, serveLog, stopLog, tkrClosed>>

\* shutdown := make(chan os.Signal); signal.Notify(shutdown, SIGINT, SIGTERM);
\* go func() { wg.Wait(); signal.Stop(shutdown); close(shutdown) }()
BootNotify ==
    /\ Alive /\ bootPc = "notify"
    /\ shutdown' = "open"
    /\ notify' = TRUE
    /\ waiterPc' = "wait"
    /\ bootPc' = "wait1"
    /\ UNCHANGED <<proc, udpVars, kprVars, cfgVars, httpVars, bootI, bootWg, goPc,
                   signals, serveLog, stopLog, tkrClosed>>

\* the waiter goroutine: wg.Wait(); signal.Stop(shutdown); close(shutdown)
Waiter ==
    /\ Alive
    /\ \/ waiterPc = "wait" /\ bootWg = 0 /\ waiterPc' = "stop" /\ UNCHANGED <<notify, shutdown>>
       \/ waiterPc = "stop" /\ notify' = FALSE /\ waiterPc' = "close" /\ UNCHANGED shutdown
       \/ waiterPc = "close" /\ shutdown' = "closed" /\ waiterPc' = "done" /\ UNCHANGED notify
    /\ UNCHANGED <<proc, udpVars, kprVars, cfgVars, httpVars, bootPc, bootI, bootWg, goPc,
                   signals, serveLog, stopLog, tkrClosed>>

AfterWait(pc) == IF pc = "wait1" THEN "stop" ELSE "close"

\* <-shutdown receives a SIGINT or SIGTERM: the channel is unbuffered, so a signal
\* is delivered only while Boot is blocked in the receive
BootSignal ==
    /\ Alive /\ bootPc \in {"wait1", "wait2"}
    /\ notify /\ shutdown = "open"
    /\ signals' = signals + 1
    /\ bootPc' = AfterWait(bootPc)
    /\ UNCHANGED <<proc, udpVars, kprVars, cfgVars, httpVars, bootI, bootWg, goPc, notify,
                   shutdown, waiterPc, serveLog, stopLog, tkrClosed>>

\* <-shutdown returns because the channel was closed
BootRecvClosed ==
    /\ Alive /\ bootPc \in {"wait1", "wait2"}
    /\ shutdown = "closed"
    /\ bootPc' = AfterWait(bootPc)
    /\ UNCHANGED <<proc, udpVars, kprVars, cfgVars, httpVars, bootI, bootWg, goPc, notify,
                   shutdown, waiterPc, signals, serveLog, stopLog, tkrClosed>>

\* for _, srv := range servers { srv.Stop() }: the call; http.Server.Stop returns
\* at once, udp.Server.Stop runs as its own steps
BootStopCall ==
    /\ Alive /\ bootPc = "stop"
    /\ IF bootI <= Len(Servers)
       THEN /\ stopLog' = Append(stopLog, Servers[bootI])
            /\ IF Servers[bootI] = "udp"
               THEN /\ stopPc' = "close"
                    /\ bootPc' = "stopwait"
                    /\ UNCHANGED <<proc, httpStop, bootI>>
               ELSE /\ HttpStop
                    /\ bootI' = bootI + 1
                    /\ UNCHANGED <<stopPc, bootPc>>
       ELSE /\ bootPc' = "wait2"
            /\ UNCHANGED <<proc, stopPc, httpStop, bootI, stopLog>>
    /\ UNCHANGED <<sock, conn, closing, booting, wg, servePc, serveErr, readRes, buffer,
                   loopGave, pool, workers, serveCalls, rotN, stopBooted, kprVars, cfgVars,
                   bootWg, goPc, notify, shutdown, waiterPc, signals, serveLog, tkrClosed,
                   httpPc, httpErr, listener, graceful, conns>>

\* udp.Server.Stop() has returned to Boot
BootStopReturn ==
    /\ Alive /\ bootPc = "stopwait"
    /\ stopPc = "returned"
    /\ bootI' = bootI + 1
    /\ bootPc' = "stop"
    /\ UNCHANGED <<proc, udpVars, kprVars, cfgVars, httpVars, bootWg, goPc, notify,
                   shutdown, waiterPc, signals, serveLog, stopLog, tkrClosed>>

\* tkr.Close(); Boot returns and the process exits with status 0
BootClose ==
    /\ Alive /\ bootPc = "close"
    /\ tkrClosed' = tkrClosed + 1
    /\ bootPc' = "done"
    /\ proc' = "exit0"
    /\ UNCHANGED <<udpVars, kprVars, cfgVars, httpVars, bootI, bootWg, goPc, notify,
                   shutdown, waiterPc, signals, serveLog, stopLog>>

(***************************************************************************)
(* Boot with the frontends the configuration names                         *)
(***************************************************************************)
InitBoot ==
    /\ proc = "running" /\ UdpRest /\ KprRest
    /\ cfgHTTP \in BOOLEAN /\ cfgUDP \in BOOLEAN
    \* (a configuration with only one of the two paths runs as one with neither:
    \* SpecHTTP covers it)
    /\ cfgCert \in (IF cfgHTTP THEN BOOLEAN ELSE {FALSE})
    /\ cfgKey = cfgCert
    /\ bootPc = "go" /\ bootI = 1 /\ bootWg = 0
    /\ goPc = [n \in ServerNames |-> "none"]
    /\ notify = FALSE /\ shutdown = "none" /\ waiterPc = "none"
    /\ signals = 0 /\ serveLog = <<>> /\ stopLog = <<>> /\ tkrClosed = 0
    /\ HttpRest

NextBoot == BootGo \/ BootGoDone \/ BootNotify \/ Waiter \/ BootSignal \/ BootRecvClosed
               \/ BootStopCall \/ BootStopReturn \/ BootClose
               \/ HttpListen \/ HttpTLS \/ HttpSetup \/ HttpReturn \/ Graceful
               \/ ServeStart \/ ServeBind \/ ServeAssign \/ LoopSelect \/ LoopTake
               \/ LoopRead \/ LoopAfterRead \/ Worker \/ RotExit
               \/ StopClose \/ StopDeadline \/ StopWait

SpecBoot == InitBoot /\ [][NextBoot]_vars

(***************************************************************************)
(* Claims about Boot (checked under SpecBoot)                              *)
(***************************************************************************)
StartupFailed == serveErr \in {"resolve", "listen"} \/ httpErr \in {"listen", "tls"}

\* Boot is blocked in its first <-shutdown with the HTTP frontend serving and the
\* goroutine of the failed UDP frontend gone: nothing but a signal moves it on
ServesOn ==
    /\ proc = "running" /\ bootPc = "wait1" /\ waiterPc = "wait"
    /\ httpPc = "serving" /\ goPc["udp"] = "done"

\* C11: http.Server.Serve() does not return while the plain HTTP server goroutine
\* or the HTTPS server goroutine is still serving: when Serve() has returned both
\* have finished.
C11_ServeBlocksUntilShutDown ==
    httpPc = "returned" => \A x \in GracefulNames : graceful[x] \in {"nil", "done"}

AllServeReturned == \A i \in 1..Len(Servers) : ServeReturned(Servers[i])

\* C13: the tracker is closed at most once, and only after Serve() has returned
\* on every registered server and Stop() has been called on every one and has
\* returned, also when a second signal arrives while Boot waits for the servers.
C13_TrackerClosedLast ==
    /\ tkrClosed <= 1
    /\ tkrClosed > 0 =>
          (AllServeReturned /\ stopLog = Servers /\ stopPc \in {"idle", "returned"})

IsPrefix(s, t) == Len(s) <= Len(t) /\ \A i \in 1..Len(s) : s[i] = t[i]

\* C16: Boot invokes Serve() once on each registered server, each goroutine on
\* its own server, and Stop() once on each, in registration order, only after a
\* signal was received or every Serve() has returned.
C16_ServeAndStopOncePerServer ==
    /\ IsPrefix(serveLog, Servers)
    /\ bootPc \notin {"off", "go"} => serveLog = Servers
    /\ serveCalls = Len(SelectSeq(serveLog, LAMBDA n : n = "udp"))
    /\ (httpPc # "idle") <=> (\E i \in 1..Len(serveLog) : serveLog[i] = "http")
    /\ IsPrefix(stopLog, Servers)
    /\ bootPc \in {"wait2", "close", "done"} => stopLog = Servers
    /\ (stopPc # "idle") <=> (\E i \in 1..Len(stopLog) : stopLog[i] = "udp")
    /\ stopLog # <<>> => (signals >= 1 \/ AllServeReturned)

\* C16 witness: Boot has returned after running two servers and stopping both
C16_Witness ==
    bootPc = "done" /\ Servers = <<"http", "udp">> /\ stopLog = Servers /\ serveLog = Servers

\* C17: without any signal, once every registered server's Serve() has returned
\* on its own Boot goes through the Stop() calls to the end and does not die.
C17_EndsWithoutSignal ==
    (signals = 0 /\ bootPc \notin {"off", "go", "notify"} /\ AllServeReturned)
        => proc # "panic"

\* C10: after a startup failure of a configured frontend Boot does not keep
\* running with the remaining frontends and never returns cleanly (exit 0).
C10_StartupFailureEndsBoot ==
    StartupFailed => (proc # "exit0" /\ ~ServesOn)

====
